---- MODULE Spec2Model ----
(***************************************************************************)
(* Model of the notebook "week 2/intro_confidenceintervals.ipynb".         *)
(*                                                                         *)
(* The program is the sequence of code cells of the notebook, run in one   *)
(* IPython kernel.  The state is the kernel namespace (the modules np, pd  *)
(* and sm bound by the imports, and the names the cells bind: tstar, p, n, *)
(* se, lcb, ucb, df, mean, sd), the value a cell displays (IPython's Out), *)
(* the exception or warning a cell ends with, and a summary of the In      *)
(* history (which cell ran last, and whether the cells have run top to     *)
(* bottom since the kernel started).                                       *)
(*                                                                         *)
(* Cells are named by the execution count recorded in the notebook:        *)
(*   Cell 1  import numpy as np, pandas as pd, statsmodels.api as sm       *)
(*   Cell 2  tstar, p, n, se = np.sqrt((p * (1 - p))/n)                    *)
(*   Cell 3  lcb, ucb = p -/+ tstar * se                                   *)
(*   Cell 5  sm.stats.proportion_confint(n * p, n)                         *)
(*   Cell 6  df = pd.read_csv(...)                                         *)
(*   Cell 7  df.head()                                                     *)
(*   Cell 8  mean, sd, n from df["CWDistance"]                             *)
(*   Cell 9  tstar, se = sd/np.sqrt(n)                                     *)
(*   Cell 10 lcb, ucb = mean -/+ tstar * se                                *)
(*   Cell 11 DescrStatsW(df["CWDistance"]).zconfint_mean()                 *)
(*                                                                         *)
(* Numbers.  A Python float is modelled in fixed point: an integer count   *)
(* of millionths (1.96 is 1960000).  A product of two such numbers is kept *)
(* exactly, as a "wide" number <<hi, lo>> = hi * 10^8 + lo counting        *)
(* 10^-12, until the expression it belongs to is finished, and is then     *)
(* floored back to millionths; np.sqrt is the floor of the square root.    *)
(* Results agree with the float64 results to a few millionths.  The        *)
(* operators are exact for operands below 100 (wide values below 10^16).   *)
(* A float that is not a number is the tagged value NaN, an unbound name   *)
(* the tagged value Unbound.                                               *)
(***************************************************************************)
EXTENDS Integers, Sequences, FiniteSets, TLC

VARIABLES imported, tstar, p, n, se, lcb, ucb, df, mean, sd, out, raised, warned,
          last, inorder

vars == <<imported, tstar, p, n, se, lcb, ucb, df, mean, sd, out, raised, warned,
          last, inorder>>

(* ------------------------------ values -------------------------------- *)

Num(x) == <<"num", x>>
NaN == <<"nan", 0>>
PosInf == <<"inf", 1>>
NegInf == <<"inf", -1>>
Unbound == <<"unbound", 0>>
IsNum(v) == v[1] = "num"
IsBound(v) == v[1] # "unbound"
Val(v) == v[2]

NoFrame == [bound |-> FALSE, rows |-> << >>]
Frame(rows) == [bound |-> TRUE, rows |-> rows]

\* DataFrame.head(): the first 5 rows, as displayed
HeadRows == 5
FrameHead(rows) ==
  <<"head", SubSeq(rows, 1, IF Len(rows) < HeadRows THEN Len(rows) ELSE HeadRows)>>

(* ------------------------- fixed-point numbers ------------------------ *)

ONE == 1000 * 1000
H == 100 * 100
B8 == H * H

Abs(x) == IF x < 0 THEN -x ELSE x

\* a * b, exact, for 0 <= a, b < 10^8
MulW(a, b) ==
  LET a1 == a \div H
      a0 == a % H
      b1 == b \div H
      b0 == b % H
      cross == a1 * b0 + a0 * b1
      c1 == cross \div H
      c0 == cross % H
      low == c0 * H + a0 * b0
  IN  <<a1 * b1 + c1 + (low \div B8), low % B8>>

AddW(x, y) ==
  LET lo == x[2] + y[2]
  IN  <<x[1] + y[1] + (lo \div B8), lo % B8>>

LeqW(x, y) == x[1] < y[1] \/ (x[1] = y[1] /\ x[2] <= y[2])

\* floor(w / d) for an integer 0 < d < 200000
DivWInt(w, d) ==
  LET q1 == w[1] \div d
      r1 == w[1] % d
      t2 == r1 * H + (w[2] \div H)
      q2 == t2 \div d
      r2 == t2 % d
      t3 == r2 * H + (w[2] % H)
      q3 == t3 \div d
  IN  <<q1, q2 * H + q3>>

\* wide (10^-12) to millionths, floored
WToFix(w) == w[1] * 100 + (w[2] \div ONE)
\* millionths to wide
FixToW(a) == <<a \div 100, (a % 100) * ONE>>
\* an integer to wide
IntToW(k) == <<k * H, 0>>

\* The largest digit d of 0..9 with (acc + d * unit) * b <= w, b = 0 standing
\* for the square (acc + d * unit)^2 <= w.
Fits(w, b, x) == LeqW(MulW(x, IF b = 0 THEN x ELSE b), w)
Digit(w, b, acc, unit) ==
  CHOOSE d \in 0..9 :
    /\ Fits(w, b, acc + d * unit)
    /\ d = 9 \/ ~Fits(w, b, acc + (d + 1) * unit)

\* The largest x < 10^8 with x * b <= w (or x^2 <= w when b = 0), found one
\* decimal digit at a time from the leading digit down to the units.
RECURSIVE Search(_, _, _, _)
Search(w, b, acc, unit) ==
  LET x == acc + Digit(w, b, acc, unit) * unit
  IN  IF unit = 1 THEN x ELSE Search(w, b, x, unit \div 10)

\* floor of the square root of a wide number, in millionths
SqrtW(w) == Search(w, 0, 0, B8 \div 10)

\* floor(a / b) in millionths, for millionths 0 <= a and 0 < b
DivFix(a, b) == Search(FixToW(a), b, 0, B8 \div 10)

(* ---------------------------- float operations ------------------------- *)

\* FMul with the product written as a sum
FMul_Add(x, y) ==
  IF IsNum(x) /\ IsNum(y) THEN Num(Val(x) + Val(y)) ELSE NaN

\* x * y on floats (line 120: tstar * se)
FMul(x, y) ==
  IF x = NaN \/ y = NaN THEN NaN
  ELSE IF ~IsNum(x) \/ ~IsNum(y)
       THEN IF Val(x) = 0 \/ Val(y) = 0 THEN NaN
            ELSE IF (Val(x) < 0) = (Val(y) < 0) THEN PosInf ELSE NegInf
  ELSE LET m == WToFix(MulW(Abs(Val(x)), Abs(Val(y))))
       IN  IF (Val(x) < 0) = (Val(y) < 0) THEN Num(m) ELSE Num(-m)

\* -y
FNeg(y) == IF y = NaN THEN NaN ELSE IF IsNum(y) THEN Num(-Val(y)) ELSE <<"inf", -Val(y)>>

\* FAdd with the sign of y flipped
FAdd_Sub(x, y) ==
  IF x = NaN \/ y = NaN THEN NaN
  ELSE IF ~IsNum(y) THEN <<"inf", -Val(y)>>
  ELSE Num(Val(x) - Val(y))

\* x + y on floats, x finite or NaN (line 121: p + ...)
FAdd(x, y) ==
  IF x = NaN \/ y = NaN THEN NaN
  ELSE IF ~IsNum(y) THEN y
  ELSE Num(Val(x) + Val(y))

\* FSub adding instead of subtracting
FSub_Add(x, y) == FAdd(x, y)

\* FSub with the result clipped at 0, as for a probability
FSub_Clip(x, y) ==
  LET r == FAdd(x, FNeg(y))
  IN  IF IsNum(r) /\ Val(r) < 0 THEN Num(0) ELSE r

\* x - y on floats, x finite or NaN (line 120: p - ...)
FSub(x, y) == FAdd(x, FNeg(y))

(* --------------------------- the cells' formulas ---------------------- *)

\* ProportionSE rooting the absolute value of the radicand
ProportionSE_Abs(pp, nn) ==
  Num(SqrtW(DivWInt(MulW(Abs(pp), Abs(ONE - pp)), nn)))

\* ProportionSE without the division by n
ProportionSE_NoDiv(pp, nn) ==
  LET w == MulW(Abs(pp), Abs(ONE - pp))
      negative == ((pp < 0) # (ONE - pp < 0)) /\ w # <<0, 0>>
  IN  IF negative THEN NaN ELSE Num(SqrtW(w))

\* np.sqrt((p * (1 - p))/n) for an int n # 0: the product is kept wide, divided
\* by n, and rooted; np.sqrt of a negative number is nan.
ProportionSE(pp, nn) ==
  LET w == MulW(Abs(pp), Abs(ONE - pp))
      negative == ((pp < 0) # (ONE - pp < 0)) /\ w # <<0, 0>>
  IN  IF negative THEN NaN ELSE Num(SqrtW(DivWInt(w, nn)))

\* The sum of rows[lo..hi], by halves.
RECURSIVE SumOf(_, _, _)
SumOf(rows, lo, hi) ==
  IF lo > hi THEN 0
  ELSE IF lo = hi THEN rows[lo]
  ELSE LET mid == (lo + hi) \div 2
       IN  SumOf(rows, lo, mid) + SumOf(rows, mid + 1, hi)

\* Series.mean(): sum / count, nan for an empty series
SeriesMean(rows) ==
  IF Len(rows) = 0 THEN NaN
  ELSE Num(WToFix(DivWInt(IntToW(SumOf(rows, 1, Len(rows))), Len(rows))))

\* The sum of (m - rows[k])^2 over k in lo..hi, wide, by halves.
RECURSIVE SumSq(_, _, _, _)
SumSq(rows, m, lo, hi) ==
  IF lo > hi THEN <<0, 0>>
  ELSE IF lo = hi THEN MulW(Abs(rows[lo] * ONE - m), Abs(rows[lo] * ONE - m))
  ELSE LET mid == (lo + hi) \div 2
       IN  AddW(SumSq(rows, m, lo, mid), SumSq(rows, m, mid + 1, hi))

\* SeriesStd with the divisor n (ddof = 0) instead of n - 1
SeriesStd_Population(rows) ==
  IF Len(rows) < 1 THEN NaN
  ELSE Num(SqrtW(DivWInt(SumSq(rows, Val(SeriesMean(rows)), 1, Len(rows)),
                         Len(rows))))

\* Series.std(): sqrt(sum((avg - x)^2) / (count - 1)), nan when count < 2
SeriesStd(rows) ==
  IF Len(rows) < 2 THEN NaN
  ELSE Num(SqrtW(DivWInt(SumSq(rows, Val(SeriesMean(rows)), 1, Len(rows)),
                         Len(rows) - 1)))

\* MeanSE dividing by n instead of sqrt(n)
MeanSE_DivN(sdv, nv) ==
  IF sdv = NaN THEN NaN
  ELSE IF Val(nv) = 0 THEN (IF Val(sdv) = 0 THEN NaN ELSE PosInf)
  ELSE Num(Val(sdv) \div Val(nv))

\* sd/np.sqrt(n), sd a numpy float (nan, or a number >= 0), n an int >= 0
MeanSE(sdv, nv) ==
  IF sdv = NaN THEN NaN
  ELSE IF Val(nv) = 0 THEN (IF Val(sdv) = 0 THEN NaN ELSE PosInf)
  ELSE Num(DivFix(Val(sdv), SqrtW(IntToW(Val(nv)))))

\* norm.ppf(0.975), the multiplier zconfint_mean and proportion_confint use at
\* their default alpha
ZCRIT == 1959964

\* np.clip(x, 0, 1)
Clip01(x) ==
  IF x = NaN THEN NaN
  ELSE IF ~IsNum(x) THEN (IF Val(x) > 0 THEN Num(ONE) ELSE Num(0))
  ELSE IF Val(x) < 0 THEN Num(0)
  ELSE IF Val(x) > ONE THEN Num(ONE)
  ELSE x

\* proportion_confint(n * p, n), method "normal": q = count / nobs,
\* std = sqrt(q * (1 - q) / nobs), q -/+ z * std, both clipped to [0, 1].  The
\* operands are numpy arrays: nobs = 0 gives nan, not ZeroDivisionError.
ProportionConfint(pp, nn) ==
  IF nn = 0 THEN <<NaN, NaN>>
  ELSE LET q == (nn * pp) \div nn
           dist == FMul(Num(ZCRIT), ProportionSE(q, nn))
       IN  <<Clip01(FSub(Num(q), dist)), Clip01(FAdd(Num(q), dist))>>

\* DescrStatsW(x).zconfint_mean(): mean -/+ z * std_mean, where
\* std_mean = std(ddof=0)/sqrt(n - 1) equals std(ddof=1)/sqrt(n)
ZConfint(rows) ==
  LET m == SeriesMean(rows)
      d == FMul(Num(ZCRIT), MeanSE(SeriesStd(rows), Num(Len(rows))))
  IN  <<FSub(m, d), FAdd(m, d)>>

(* ------------------------ literals and inputs ------------------------- *)

\* tstar = 1.96, p = .85, n = 659 (cell 2); tstar = 2.064 (cell 9)
TSTAR_Z == 1960000
P_LIT == 850000
N_LIT == 659
TSTAR_T == 2064000

\* The CWDistance column of Cartwheeldata.csv.  The file is read at line 165 and
\* is not among the sources; these 25 values reproduce every output the notebook
\* records from it: the head (79, 70, 85, 87, 72), n = 25, se = 3.0117104...,
\* (76.2638..., 88.6961...) and (76.5771..., 88.3828...).
CWDistance ==
  <<79, 70, 85, 87, 72, 81, 107, 98, 106, 65, 96, 79, 92,
    66, 72, 115, 90, 74, 64, 85, 66, 101, 82, 63, 67>>

MaxCount == 2
MaxTrial == 2
MaxRows == 2

\* p = successCount / trialCount
Ratio(k, m) == (k * ONE) \div m

PInputs == {Ratio(k, m) : k \in -1..MaxCount, m \in 1..MaxCount}
             \cup {P_LIT, Ratio(560, N_LIT)}
NInputs == (0..MaxTrial) \cup {N_LIT}
Multipliers == {TSTAR_Z, TSTAR_T}
Datasets == {CWDistance}
              \cup {SubSeq(CWDistance, 1, k) : k \in 0..MaxRows}
              \cup {[i \in 1..k |-> CWDistance[1]] : k \in 2..MaxRows}

(* -------------------------------- cells ------------------------------- *)

\* A fresh kernel: no name is bound, no cell has run.
Init ==
  /\ imported = FALSE
  /\ tstar = Unbound /\ p = Unbound /\ n = Unbound /\ se = Unbound
  /\ lcb = Unbound /\ ucb = Unbound /\ mean = Unbound /\ sd = Unbound
  /\ df = NoFrame
  /\ out = << >>
  /\ raised = "none"
  /\ warned = "none"
  /\ last = 0
  /\ inorder = TRUE

\* Kernel restart: the namespace is emptied, np, pd and sm included.
Restart ==
  /\ last # 0
  /\ imported' = FALSE
  /\ tstar' = Unbound /\ p' = Unbound /\ n' = Unbound /\ se' = Unbound
  /\ lcb' = Unbound /\ ucb' = Unbound /\ mean' = Unbound /\ sd' = Unbound
  /\ df' = NoFrame
  /\ out' = << >>
  /\ raised' = "none"
  /\ warned' = "none"
  /\ last' = 0
  /\ inorder' = TRUE

\* A cell that ends with an exception displays nothing.
Raise(e) == raised' = e /\ warned' = "none" /\ out' = << >>

\* Cell 1: the three imports bind np, pd and sm.
Cell1 ==
  /\ imported' = TRUE
  /\ out' = << >>
  /\ raised' = "none"
  /\ warned' = "none"
  /\ last' = 1
  /\ inorder' = (inorder /\ last = 0)
  /\ UNCHANGED <<tstar, p, n, se, lcb, ucb, df, mean, sd>>

\* Cell 2 with its three literals as parameters.  The three assignments are done
\* before line 85 can raise NameError (np is looked up first) or
\* ZeroDivisionError (a float divided by the int 0).
Cell2With(t, pp, nn) ==
  /\ tstar' = Num(t)
  /\ p' = Num(pp)
  /\ n' = Num(nn)
  /\ IF ~imported
     THEN /\ Raise("NameError")
          /\ se' = se
     ELSE IF nn = 0
     THEN /\ Raise("ZeroDivisionError")
          /\ se' = se
     ELSE /\ se' = ProportionSE(pp, nn)
          /\ out' = <<se'>>
          /\ raised' = "none"
          /\ warned' = IF se' = NaN THEN "RuntimeWarning" ELSE "none"
  /\ last' = 2
  /\ inorder' = (inorder /\ last = 1)
  /\ UNCHANGED <<imported, lcb, ucb, df, mean, sd>>

Cell2 == Cell2With(TSTAR_Z, P_LIT, N_LIT)

\* Cell 3: lcb = p - tstar * se; ucb = p + tstar * se; (lcb, ucb)
Cell3 ==
  /\ IF IsBound(p) /\ IsBound(tstar) /\ IsBound(se)
     THEN /\ lcb' = FSub(p, FMul(tstar, se))
          /\ ucb' = FAdd(p, FMul(tstar, se))
          /\ out' = <<lcb', ucb'>>
          /\ raised' = "none"
          /\ warned' = "none"
     ELSE /\ Raise("NameError")
          /\ UNCHANGED <<lcb, ucb>>
  /\ last' = 3
  /\ inorder' = (inorder /\ last = 2)
  /\ UNCHANGED <<imported, tstar, p, n, se, df, mean, sd>>

\* Cell 5: sm.stats.proportion_confint(n * p, n), on the n and p the kernel holds
Cell5 ==
  /\ IF imported /\ IsBound(n) /\ IsBound(p)
     THEN /\ out' = ProportionConfint(Val(p), Val(n))
          /\ raised' = "none"
          /\ warned' = IF out'[1] = NaN THEN "RuntimeWarning" ELSE "none"
     ELSE Raise("NameError")
  /\ last' = 5
  /\ inorder' = (inorder /\ last = 3)
  /\ UNCHANGED <<imported, tstar, p, n, se, lcb, ucb, df, mean, sd>>

\* Cell 6: df = pd.read_csv("Cartwheeldata.csv"); rows is the CWDistance column.
Cell6(rows) ==
  /\ IF imported
     THEN /\ df' = Frame(rows)
          /\ out' = << >>
          /\ raised' = "none"
          /\ warned' = "none"
     ELSE /\ Raise("NameError")
          /\ df' = df
  /\ last' = 6
  /\ inorder' = (inorder /\ last = 5)
  /\ UNCHANGED <<imported, tstar, p, n, se, lcb, ucb, mean, sd>>

\* Cell 7: df.head()
Cell7 ==
  /\ IF df.bound
     THEN /\ out' = <<FrameHead(df.rows)>>
          /\ raised' = "none"
          /\ warned' = "none"
     ELSE Raise("NameError")
  /\ last' = 7
  /\ inorder' = (inorder /\ last = 6)
  /\ UNCHANGED <<imported, tstar, p, n, se, lcb, ucb, df, mean, sd>>

\* Cell 8: mean, sd, n = len(df); n
Cell8 ==
  /\ IF df.bound
     THEN /\ mean' = SeriesMean(df.rows)
          /\ sd' = SeriesStd(df.rows)
          /\ n' = Num(Len(df.rows))
          /\ out' = <<n'>>
          /\ raised' = "none"
          /\ warned' = "none"
     ELSE /\ Raise("NameError")
          /\ UNCHANGED <<mean, sd, n>>
  /\ last' = 8
  /\ inorder' = (inorder /\ last = 7)
  /\ UNCHANGED <<imported, tstar, p, se, lcb, ucb, df>>

\* Cell 9 without its assignment to tstar
Cell9With_KeepT(t) ==
  /\ tstar' = tstar
  /\ IF IsBound(sd) /\ imported /\ IsBound(n)
     THEN /\ se' = MeanSE(sd, n)
          /\ out' = <<se'>>
          /\ raised' = "none"
          /\ warned' = IF IsNum(sd) /\ Val(n) = 0 THEN "RuntimeWarning" ELSE "none"
     ELSE /\ Raise("NameError")
          /\ se' = se
  /\ last' = 9
  /\ inorder' = (inorder /\ last = 8)
  /\ UNCHANGED <<imported, p, n, lcb, ucb, df, mean, sd>>

\* Cell 9 with its literal as parameter: tstar is bound before line 355 can
\* raise NameError (for sd, np or n).  A number divided by np.sqrt(0) is inf or
\* nan with a RuntimeWarning; nan divided by it is nan without one.
Cell9With(t) ==
  /\ tstar' = Num(t)
  /\ IF IsBound(sd) /\ imported /\ IsBound(n)
     THEN /\ se' = MeanSE(sd, n)
          /\ out' = <<se'>>
          /\ raised' = "none"
          /\ warned' = IF IsNum(sd) /\ Val(n) = 0 THEN "RuntimeWarning" ELSE "none"
     ELSE /\ Raise("NameError")
          /\ se' = se
  /\ last' = 9
  /\ inorder' = (inorder /\ last = 8)
  /\ UNCHANGED <<imported, p, n, lcb, ucb, df, mean, sd>>

Cell9 == Cell9With(TSTAR_T)

\* Cell 10: lcb = mean - tstar * se; ucb = mean + tstar * se; (lcb, ucb)
Cell10 ==
  /\ IF IsBound(mean) /\ IsBound(tstar) /\ IsBound(se)
     THEN /\ lcb' = FSub(mean, FMul(tstar, se))
          /\ ucb' = FAdd(mean, FMul(tstar, se))
          /\ out' = <<lcb', ucb'>>
          /\ raised' = "none"
          /\ warned' = "none"
     ELSE /\ Raise("NameError")
          /\ UNCHANGED <<lcb, ucb>>
  /\ last' = 10
  /\ inorder' = (inorder /\ last = 9)
  /\ UNCHANGED <<imported, tstar, p, n, se, df, mean, sd>>

\* Cell 11: sm.stats.DescrStatsW(df["CWDistance"]).zconfint_mean().  On fewer than
\* 2 rows the library divides 0.0 by 0.0 (the mean of no row, std_mean of one
\* row): nan with a RuntimeWarning.
Cell11 ==
  /\ IF imported /\ df.bound
     THEN /\ out' = ZConfint(df.rows)
          /\ raised' = "none"
          /\ warned' = IF Len(df.rows) < 2 THEN "RuntimeWarning" ELSE "none"
     ELSE Raise("NameError")
  /\ last' = 11
  /\ inorder' = (inorder /\ last = 10)
  /\ UNCHANGED <<imported, tstar, p, n, se, lcb, ucb, df, mean, sd>>

LoadCsv == Cell6(CWDistance)

\* The notebook as written: the cells hold their literals, the file is
\* Cartwheeldata.csv, and the user may run any cell at any time.
Next ==
  \/ Cell1
  \/ Cell2
  \/ Cell3
  \/ Cell5
  \/ LoadCsv
  \/ Cell7
  \/ Cell8
  \/ Cell9
  \/ Cell10
  \/ Cell11
  \/ Restart

Spec == Init /\ [][Next]_vars

\* "Restart & Run All" with the cells' literals and the file's column as inputs: the cells
\* run top to bottom, and the run stops at the first exception.
Running == raised = "none"

RunCell1 == last = 0 /\ Cell1
RunCell2 == \E t \in Multipliers, pp \in PInputs, nn \in NInputs :
              Running /\ last = 1 /\ Cell2With(t, pp, nn)
RunCell3 == Running /\ last = 2 /\ Cell3
RunCell5 == Running /\ last = 3 /\ Cell5
RunCell6 == \E rows \in Datasets : Running /\ last = 5 /\ Cell6(rows)
RunCell7 == Running /\ last = 6 /\ Cell7
RunCell8 == Running /\ last = 7 /\ Cell8
RunCell9 == \E t \in Multipliers : Running /\ last = 8 /\ Cell9With(t)
RunCell10 == Running /\ last = 9 /\ Cell10
RunCell11 == Running /\ last = 10 /\ Cell11

NextRunAll ==
  \/ RunCell1
  \/ RunCell2
  \/ RunCell3
  \/ RunCell5
  \/ RunCell6
  \/ RunCell7
  \/ RunCell8
  \/ RunCell9
  \/ RunCell10
  \/ RunCell11
  \/ Restart

SpecRunAll == Init /\ [][NextRunAll]_vars

(* ------------------------------- claims ------------------------------- *)

Near(v, target, tol) == IsNum(v) /\ Abs(Val(v) - target) <= tol

\* The proportion cells have run on a valid input: n > 0 and 0 <= p <= 1.
ValidProportion ==
  /\ last = 3 /\ raised = "none"
  /\ IsNum(n) /\ Val(n) > 0
  /\ IsNum(p) /\ 0 <= Val(p) /\ Val(p) <= ONE

\* The proportion cells have run on an invalid input: n = 0, p < 0 or p > 1.
InvalidProportion ==
  /\ last \in {2, 3}
  /\ IsNum(n) /\ IsNum(p)
  /\ (Val(n) = 0 \/ Val(p) < 0 \/ Val(p) > ONE)

\* C1: for every valid input of the proportion cells the displayed pair is
\* (lcb, ucb) with lcb <= p <= ucb, at the same distance tstar * se from p, where
\* se is the standard error of p and n.
C1_Symmetric ==
  ValidProportion =>
    /\ out = <<lcb, ucb>>
    /\ IsNum(lcb) /\ IsNum(ucb) /\ IsNum(se)
    /\ se = ProportionSE(Val(p), Val(n))
    /\ Val(lcb) <= Val(p) /\ Val(p) <= Val(ucb)
    /\ Val(ucb) - Val(p) = Val(p) - Val(lcb)
    /\ Val(ucb) - Val(p) = Val(FMul(tstar, se))

C1_Witness ==
  /\ ValidProportion
  /\ p = Num(Ratio(1, 2)) /\ n = Num(2)
  /\ Val(lcb) < Val(p) /\ Val(p) < Val(ucb)

\* C2 (as claimed): on an invalid input (n = 0, p < 0 or p > 1) the proportion
\* cells fail and display no pair.  An exception of any name is taken as the
\* failure InvalidArgument.
C2_Claim ==
  InvalidProportion => (Len(out) # 2 /\ (last = 3 => raised # "none"))

\* C2 (amended): the proportion cells validate nothing.  With n = 0 cell 2 ends
\* with ZeroDivisionError, displays nothing, and cell 3 is not reached; with
\* n > 0 and p < 0 or p > 1 no exception is raised, np.sqrt warns and gives nan,
\* and cell 3 displays the pair (nan, nan).
C2_NoValidation ==
  /\ (last = 2 /\ IsNum(n) /\ Val(n) = 0) =>
       (raised = "ZeroDivisionError" /\ out = << >> /\ warned = "none")
  /\ (last = 3 /\ IsNum(n)) => Val(n) # 0
  /\ (last = 2 /\ InvalidProportion /\ Val(n) > 0) =>
       (raised = "none" /\ warned = "RuntimeWarning" /\ out = <<NaN>>)
  /\ (last = 3 /\ InvalidProportion /\ Val(n) > 0) =>
       (raised = "none" /\ out = <<NaN, NaN>> /\ lcb = NaN /\ ucb = NaN)

C2_Witness ==
  /\ last = 3 /\ InvalidProportion
  /\ Val(p) > ONE /\ Val(n) > 0
  /\ out = <<NaN, NaN>>

\* The mean cells have run, through cell k, on a column of fewer than 2 rows.
ShortSample == last \in {8, 9, 10} /\ df.bound /\ Len(df.rows) < 2

\* C3 (as claimed): with fewer than 2 observations the mean cells fail and
\* display no interval.  An exception of any name is taken as the failure
\* InvalidArgument.
C3_Claim ==
  ShortSample => (Len(out) # 2 /\ (last = 10 => raised # "none"))

\* C3 (amended): with fewer than 2 observations no cell raises: the standard
\* deviation is nan, the standard error is nan, and cell 10 displays (nan, nan).
C3_NanInterval ==
  ShortSample =>
    /\ raised = "none"
    /\ sd = NaN
    /\ last \in {9, 10} => se = NaN
    /\ last = 10 => (out = <<NaN, NaN>> /\ lcb = NaN /\ ucb = NaN)

C3_Witness ==
  /\ ShortSample /\ last = 10
  /\ Len(df.rows) = 1
  /\ IsNum(mean)
  /\ out = <<NaN, NaN>>

\* The multiplier policy: the normal multiplier for n > 30 and only then, and
\* 2.064 for n = 25.
IsNormal(t) == t \in {TSTAR_Z, ZCRIT}
PolicyOK(k, t) ==
  /\ k > 30 => IsNormal(t)
  /\ k <= 30 => ~IsNormal(t)
  /\ k = 25 => t = TSTAR_T

\* C4: in a top-to-bottom run every displayed interval uses the multiplier of the
\* policy for its sample size: cells 3 and 10 use tstar with n, cell 5 uses the
\* normal multiplier with n, cell 11 uses the normal multiplier with the length
\* of the column.
C4_Claim ==
  (inorder /\ raised = "none") =>
    /\ last \in {3, 10} => PolicyOK(Val(n), Val(tstar))
    /\ last = 5 => PolicyOK(Val(n), ZCRIT)
    /\ last = 11 => PolicyOK(Len(df.rows), ZCRIT)

\* C5 (as claimed): for every valid p, the half-width at n is strictly smaller
\* than the half-width at any smaller trial count n1.
C5_Claim ==
  ValidProportion =>
    \A n1 \in NInputs :
      (0 < n1 /\ n1 < Val(n)) =>
        Val(ucb) - Val(p) < Val(FMul(tstar, ProportionSE(Val(p), n1)))

\* C5 (amended): for 0 < p < 1 the half-width at n is strictly smaller than at
\* any smaller trial count; for p = 0 and p = 1 it is 0 at every trial count.
C5_StrictInside ==
  ValidProportion =>
    \A n1 \in NInputs :
      (0 < n1 /\ n1 < Val(n)) =>
        IF 0 < Val(p) /\ Val(p) < ONE
        THEN Val(ucb) - Val(p) < Val(FMul(tstar, ProportionSE(Val(p), n1)))
        ELSE /\ Val(ucb) - Val(p) = 0
             /\ Val(FMul(tstar, ProportionSE(Val(p), n1))) = 0

C5_Witness ==
  /\ ValidProportion
  /\ p = Num(Ratio(1, 2)) /\ n = Num(N_LIT)
  /\ Val(ucb) - Val(p) < Val(FMul(tstar, ProportionSE(Val(p), 2)))
  /\ Val(FMul(tstar, ProportionSE(Val(p), 2)))
       < Val(FMul(tstar, ProportionSE(Val(p), 1)))

\* The proportion cells have run on p = pp, n = 659, tstar = 1.96.
WorkedExample(pp) ==
  /\ last = 3 /\ raised = "none"
  /\ p = Num(pp) /\ n = Num(N_LIT) /\ tstar = Num(TSTAR_Z)

\* C6 (as claimed): with p = 560 / 659, n = 659 and multiplier 1.96 the interval
\* is (0.8227, 0.8773) to four decimals and se is 0.013910.
C6_Claim ==
  WorkedExample(Ratio(560, N_LIT)) =>
    /\ Near(lcb, 822700, 50)
    /\ Near(ucb, 877300, 50)
    /\ Near(se, 13910, 1)

\* C6 (amended): (0.8227, 0.8773) and se = 0.013910 are the results for the
\* notebook's p = 0.85 (n * p = 560.15); with p = 560 / 659 = 0.849772 the
\* interval is (0.8225, 0.8771) and se is 0.013918.
C6_WorkedExample ==
  /\ WorkedExample(P_LIT) =>
       /\ Near(lcb, 822700, 50)
       /\ Near(ucb, 877300, 50)
       /\ Near(se, 13910, 1)
       /\ out = <<lcb, ucb>>
  /\ WorkedExample(Ratio(560, N_LIT)) =>
       /\ Near(lcb, 822500, 50)
       /\ Near(ucb, 877100, 50)
       /\ Near(se, 13918, 1)
       /\ out = <<lcb, ucb>>

C6_Witness ==
  /\ WorkedExample(P_LIT)
  /\ out = <<Num(822739), Num(877261)>>

\* The mean cells have run on the 25 CWDistance values with tstar = 2.064.
CartwheelExample ==
  /\ last = 10 /\ raised = "none"
  /\ df.bound /\ df.rows = CWDistance
  /\ tstar = Num(TSTAR_T)

\* C7 (as claimed): on the CWDistance sample mean = 82.48, sd = 7.275, n = 25,
\* se = sd / sqrt(n), and the interval is (76.264, 88.696) to three decimals.
C7_Claim ==
  CartwheelExample =>
    /\ mean = Num(82480000)
    /\ Near(sd, 7275000, 500)
    /\ n = Num(25)
    /\ se = MeanSE(sd, n)
    /\ Near(lcb, 76264000, 500)
    /\ Near(ucb, 88696000, 500)

\* C7 (amended): on the CWDistance sample mean = 82.48, sd = 15.059 (n - 1
\* divisor), n = 25, se = sd / sqrt(n) = 3.0117, and the interval is
\* (76.264, 88.696) to three decimals.
C7_Cartwheel ==
  CartwheelExample =>
    /\ mean = Num(82480000)
    /\ Near(sd, 15059000, 500)
    /\ n = Num(25)
    /\ se = MeanSE(sd, n)
    /\ Near(se, 3011700, 50)
    /\ Near(lcb, 76264000, 500)
    /\ Near(ucb, 88696000, 500)
    /\ out = <<lcb, ucb>>

C7_Witness ==
  /\ CartwheelExample
  /\ out = <<Num(76263831), Num(88696169)>>

\* An interval cell has run with a standard error of zero; Estimate is the
\* point estimate of that cell.
Degenerate == last \in {3, 10} /\ raised = "none" /\ se = Num(0)
Estimate == IF last = 3 THEN p ELSE mean

\* C8 (as claimed): when the standard error is zero the interval is still
\* displayed, with both bounds equal to the point estimate, and the condition
\* NumericDegenerate is reported with it.
C8_Claim ==
  Degenerate =>
    /\ out = <<Estimate, Estimate>>
    /\ (raised = "NumericDegenerate" \/ warned = "NumericDegenerate")

\* C8 (amended): when the standard error is zero the interval is still
\* displayed, with both bounds equal to the point estimate, and nothing is
\* reported: no exception and no warning.
C8_Silent ==
  Degenerate =>
    /\ IsNum(Estimate)
    /\ out = <<Estimate, Estimate>>
    /\ lcb = Estimate /\ ucb = Estimate
    /\ raised = "none" /\ warned = "none"

\* Both cases in one run: p = 0 or 1 at cell 2, then two identical rows.
C8_Witness ==
  /\ Degenerate /\ last = 10
  /\ p \in {Num(0), Num(ONE)}
  /\ Len(df.rows) = 2 /\ sd = Num(0)
  /\ out = <<mean, mean>>

\* C9: on a valid input the bounds are never clipped to [0, 1]: a lower bound
\* p - tstar * se below 0 and an upper bound p + tstar * se above 1 are
\* displayed as they are.
C9_NoClamp ==
  ValidProportion =>
    LET m == Val(FMul(tstar, se))
    IN  /\ Val(p) - m < 0 => (Val(lcb) = Val(p) - m /\ out[1] = lcb)
        /\ Val(p) + m > ONE => (Val(ucb) = Val(p) + m /\ out[2] = ucb)

C9_Witness ==
  /\ ValidProportion
  /\ Val(lcb) < 0
  /\ Val(ucb) > ONE

\* What each interval cell displays when its steps run alone, from its own
\* inputs: the literals of cell 2, and the column with the literal of cell 9.
ProportionAlone ==
  LET m == FMul(Num(TSTAR_Z), ProportionSE(P_LIT, N_LIT))
  IN  <<FSub(Num(P_LIT), m), FAdd(Num(P_LIT), m)>>
MeanAlone(rows) ==
  LET m == FMul(Num(TSTAR_T), MeanSE(SeriesStd(rows), Num(Len(rows))))
  IN  <<FSub(SeriesMean(rows), m), FAdd(SeriesMean(rows), m)>>
StatsOfFrame ==
  df.bound /\ mean = SeriesMean(df.rows) /\ sd = SeriesStd(df.rows)

\* C10 (as claimed): in any order or interleaving of the cells, an interval
\* cell displays the pair its own inputs give when run alone.
C10_Claim ==
  /\ (last = 3 /\ raised = "none") => out = ProportionAlone
  /\ (last = 5 /\ raised = "none") => out = ProportionConfint(P_LIT, N_LIT)
  /\ (last = 10 /\ raised = "none" /\ StatsOfFrame) => out = MeanAlone(df.rows)

\* C10 (amended): the cells share the kernel's names tstar, n, se, lcb and ucb,
\* which the mean cells rebind; when the cells run top to bottom an interval
\* cell displays the pair its own inputs give.
C10_InOrder ==
  inorder =>
    /\ (last = 3 /\ raised = "none") => out = ProportionAlone
    /\ (last = 5 /\ raised = "none") => out = ProportionConfint(P_LIT, N_LIT)
    /\ (last = 10 /\ raised = "none") => (StatsOfFrame /\ out = MeanAlone(df.rows))

C10_Witness ==
  /\ inorder /\ last = 10 /\ raised = "none"
  /\ df.rows = CWDistance
  /\ out = MeanAlone(CWDistance)
  /\ p = Num(P_LIT)

====
